---------------------------- MODULE Spec2Model ----------------------------
(***************************************************************************)
(* Microsoft Store Icon Generator: the variant catalog, the aspect-ratio   *)
(* validation, the render engine (resize + banded sharpening), the ICO     *)
(* frame ordering and the threaded generation run of IconGeneratorApp.     *)
(***************************************************************************)
EXTENDS Integers, Sequences, FiniteSets, TLC

VARIABLES
    source_image_path,  \* IconGeneratorApp.source_image_path, NoPath when None
    source_image,       \* IconGeneratorApp.source_image (the loaded RGBA image)
    output_directory,   \* IconGeneratorApp.output_directory, NoDir when None
    icon_type_var,      \* the Tk StringVar behind the three radio buttons
    icc_profile,        \* ImageProcessor.icc_profile, NoProfile when None
    source_label,       \* the source label: "none", "valid" (green), "warn" (orange)
    status_label,       \* the status label's text
    progress_bar,       \* the progress bar's maximum and value
    generate_button,    \* state of the generate button: "normal" or "disabled"
    rootAlive,          \* FALSE once _on_closing has destroyed the root window
    ui,                 \* the UI thread: idle, or inside load_image of a file
    lastDialog,         \* the dialog the last UI handler showed, "none" if none
    worker,             \* the worker thread: position and locals of generate_icons
    disk,               \* the files under the output directories
    run,                \* history of the run in progress (or of the last run)
    events,             \* number of user actions and injected failures so far
    arg,                \* input of the pure function under check
    res                 \* its result <<r>>, << >> until the function has been applied

appVars == <<source_image_path, source_image, output_directory, icon_type_var,
             icc_profile, source_label, status_label, progress_bar, generate_button,
             rootAlive, ui, lastDialog, worker, disk, run, events>>
fnVars == <<arg, res>>
vars == <<appVars, fnVars>>

(***************************************************************************)
(* Bounds of the model                                                     *)
(***************************************************************************)
\* widths and heights fed to the aspect-ratio validation: 0..MaxDim
MaxDim == 40
\* target max-dimensions fed to the sharpening selection: 1..MaxSharpenDim
MaxSharpenDim == 130
\* events of the environment per behaviour: user actions (select image, change
\* type, select directory, click, close) and failures of a resize, an unsharp
\* mask or a write
MaxEvents == 4

(***************************************************************************)
(* Variant catalog (icon_generator.py, module level)                       *)
(***************************************************************************)
Cfg(filename, width, height) == [filename |-> filename, width |-> width, height |-> height]

SQUARE_CONFIGS ==
    << Cfg("Square44x44Logo.scale-100.png", 44, 44),
       Cfg("Square44x44Logo.scale-125.png", 55, 55),
       Cfg("Square44x44Logo.scale-150.png", 66, 66),
       Cfg("Square44x44Logo.scale-200.png", 88, 88),
       Cfg("Square44x44Logo.scale-400.png", 176, 176),
       Cfg("Square44x44Logo.targetsize-16_altform-unplated.png", 16, 16),
       Cfg("Square44x44Logo.targetsize-24_altform-unplated.png", 24, 24),
       Cfg("Square44x44Logo.targetsize-32_altform-unplated.png", 32, 32),
       Cfg("Square44x44Logo.targetsize-48_altform-unplated.png", 48, 48),
       Cfg("Square44x44Logo.targetsize-256_altform-unplated.png", 256, 256),
       Cfg("Square150x150Logo.scale-100.png", 150, 150),
       Cfg("Square150x150Logo.scale-125.png", 188, 188),
       Cfg("Square150x150Logo.scale-150.png", 225, 225),
       Cfg("Square150x150Logo.scale-200.png", 300, 300),
       Cfg("Square150x150Logo.scale-400.png", 600, 600),
       Cfg("StoreLogo.scale-100.png", 50, 50),
       Cfg("StoreLogo.scale-125.png", 63, 63),
       Cfg("StoreLogo.scale-150.png", 75, 75),
       Cfg("StoreLogo.scale-200.png", 100, 100),
       Cfg("StoreLogo.scale-400.png", 200, 200) >>

WIDE_CONFIGS ==
    << Cfg("Wide310x150Logo.scale-100.png", 310, 150),
       Cfg("Wide310x150Logo.scale-125.png", 388, 188),
       Cfg("Wide310x150Logo.scale-150.png", 465, 225),
       Cfg("Wide310x150Logo.scale-200.png", 620, 300),
       Cfg("Wide310x150Logo.scale-400.png", 1240, 600) >>

ICO_SIZES == <<16, 32, 48, 64, 128, 256, 512>>

IconTypes == {"square", "wide", "ico"}

\* the dict ICON_CONFIGS; its "ico" entry is the empty list
ICON_CONFIGS == [t \in IconTypes |->
                    CASE t = "square" -> SQUARE_CONFIGS
                      [] t = "wide"   -> WIDE_CONFIGS
                      [] t = "ico"    -> << >>]

\* an ICO frame as a target: generate_ico_from_source resizes to (size, size)
IcoTarget(size) == Cfg("icon.ico", size, size)

\* a lookup that reads ICON_CONFIGS for every type, "ico" included
TargetsForIcoMissing(icon_type) == ICON_CONFIGS[icon_type]

\* the targets a run of generate_icons works through for an icon type: "ico" is
\* dispatched to generate_ico_multisize, which takes ICO_SIZES; the other types
\* take their ICON_CONFIGS entry
TargetsFor(icon_type) ==
    IF icon_type = "ico"
    THEN [i \in 1..Len(ICO_SIZES) |-> IcoTarget(ICO_SIZES[i])]
    ELSE ICON_CONFIGS[icon_type]

(***************************************************************************)
(* Python floats (IEEE-754 binary64) as far as the validation uses them:   *)
(* int / int (correctly rounded), subtraction, abs and comparison.  A      *)
(* non-negative float is held exactly as a fixed-point bit string, most    *)
(* significant bit first, FloatIntBits bits before the binary point and    *)
(* FloatFracBits after it; every float the validation meets for the        *)
(* bounded inputs fits.                                                    *)
(***************************************************************************)
FloatPrecision == 53
FloatIntBits == 12
FloatFracBits == 76
FloatWidth == FloatIntBits + FloatFracBits

RECURSIVE Pow2(_)
Pow2(n) == IF n = 0 THEN 1 ELSE 2 * Pow2(n - 1)

\* 2^e mod h, by repeated squaring
RECURSIVE Pow2Mod(_, _)
Pow2Mod(e, h) ==
    IF e = 0 THEN 1 % h
    ELSE LET half == Pow2Mod(e \div 2, h)
         IN  IF e % 2 = 0 THEN (half * half) % h ELSE (2 * half * half) % h

\* the remainder of long division of r by h after i binary digits: r * 2^i mod h
DivRem(r, h, i) == (r * Pow2Mod(i, h)) % h

\* the exact quotient w / h (h > 0) cut to the fixed-point width: the integer part,
\* then digit i after the point is floor(2 * rem(i-1) / h)
QuotientDigits(w, h) ==
    [i \in 1..FloatWidth |->
        IF i <= FloatIntBits
        THEN ((w \div h) \div Pow2(FloatIntBits - i)) % 2
        ELSE (2 * DivRem(w % h, h, i - FloatIntBits - 1)) \div h] \o << >>

LeadingOne(bits) ==
    IF \A i \in 1..Len(bits) : bits[i] = 0 THEN 0
    ELSE CHOOSE i \in 1..Len(bits) : bits[i] = 1 /\ \A k \in 1..(i - 1) : bits[k] = 0

\* round-to-nearest, ties-to-even, of an exact value to FloatPrecision significant
\* bits; sticky says that the exact value has non-zero digits beyond bits
RoundNearestEven(bits, sticky) ==
    LET lead == LeadingOne(bits)
        last == lead + FloatPrecision - 1
    IN  IF lead = 0 \/ last >= Len(bits) THEN bits
        ELSE LET guard == bits[last + 1]
                 rest  == sticky \/ \E i \in (last + 2)..Len(bits) : bits[i] = 1
                 up    == guard = 1 /\ (rest \/ bits[last] = 1)
             IN  IF ~up
                 THEN [i \in 1..Len(bits) |-> IF i <= last THEN bits[i] ELSE 0] \o << >>
                 ELSE LET j == CHOOSE j \in 1..last :
                                  /\ bits[j] = 0
                                  /\ \A k \in (j + 1)..last : bits[k] = 1
                      IN  [i \in 1..Len(bits) |->
                              IF i < j THEN bits[i] ELSE IF i = j THEN 1 ELSE 0] \o << >>

Round(bits, sticky) == RoundNearestEven(bits, sticky)

\* Python's true division of two non-negative ints, w / h with h > 0
TrueDiv(w, h) == Round(QuotientDigits(w, h), DivRem(w % h, h, FloatFracBits) # 0)

FloatLess(a, b) ==
    \E j \in 1..FloatWidth : a[j] < b[j] /\ \A k \in 1..(j - 1) : a[k] = b[k]

\* the borrow into digit i of a - b: the digits of a below i are less than b's
Borrow(a, b, i) ==
    \E j \in (i + 1)..FloatWidth : a[j] < b[j] /\ \A k \in (i + 1)..(j - 1) : a[k] = b[k]

\* the exact difference a - b of two fixed-point values, a >= b
SubDigits(a, b) ==
    [i \in 1..FloatWidth |->
        (a[i] - b[i] - (IF Borrow(a, b, i) THEN 1 ELSE 0)) % 2] \o << >>

\* abs(a - b) of two non-negative floats: the exact difference, rounded
FloatAbsDiff(a, b) ==
    IF FloatLess(a, b) THEN Round(SubDigits(b, a), FALSE)
    ELSE Round(SubDigits(a, b), FALSE)

FloatZero == [i \in 1..FloatWidth |-> 0] \o << >>

(***************************************************************************)
(* Aspect-ratio validation (_validate_and_update_source_label, and the     *)
(* same test again in select_source_image)                                 *)
(***************************************************************************)
\* aspect_ratio = width / height if height > 0 else 0
AspectRatio(width, height) == IF height > 0 THEN TrueDiv(width, height) ELSE FloatZero

\* the float literals 1.0, 0.05 and 0.1, and expected_ratio = 310 / 150
FloatOne == TrueDiv(1, 1)
SquareTolerance == TrueDiv(5, 100)
WideTolerance == TrueDiv(1, 10)
ExpectedWideRatio == TrueDiv(310, 150)

\* is_valid of _validate_and_update_source_label
IsValidAspect(width, height, icon_type) ==
    IF icon_type \in {"square", "ico"}
    THEN ~ FloatLess(SquareTolerance, FloatAbsDiff(AspectRatio(width, height), FloatOne))
    ELSE IF icon_type = "wide"
    THEN ~ FloatLess(WideTolerance,
                     FloatAbsDiff(AspectRatio(width, height), ExpectedWideRatio))
    ELSE TRUE

Abs(x) == IF x < 0 THEN -x ELSE x

(***************************************************************************)
(* Render engine (image_processor.py)                                      *)
(***************************************************************************)
SHARPEN_THRESHOLD == 128

Params(radius, percent, threshold) ==
    [radius |-> radius, percent |-> percent, threshold |-> threshold]

\* the dict SHARPEN_PARAMS in its insertion order; a radius is held as its literal
SHARPEN_PARAMS ==
    << [min_size |-> 0,  max_size |-> 32,  params |-> Params("0.6", 70, 3)],
       [min_size |-> 33, max_size |-> 64,  params |-> Params("0.5", 50, 3)],
       [min_size |-> 65, max_size |-> 127, params |-> Params("0.4", 35, 3)] >>

DefaultSharpenParams == Params("0.5", 50, 3)

\* a selection whose ranges exclude their upper end
SelectSharpenParamsOffByOne(size) ==
    LET hits == {i \in 1..Len(SHARPEN_PARAMS) :
                    SHARPEN_PARAMS[i].min_size <= size /\ size < SHARPEN_PARAMS[i].max_size}
    IN  IF hits = {} THEN [band |-> 0, params |-> DefaultSharpenParams]
        ELSE LET first == CHOOSE i \in hits : \A k \in hits : i <= k
             IN  [band |-> first, params |-> SHARPEN_PARAMS[first].params]

\* the loop of _apply_sharpening: the first entry whose range holds size, else the
\* default; band is the entry's position, 0 when the default was kept
SelectSharpenParams(size) ==
    LET hits == {i \in 1..Len(SHARPEN_PARAMS) :
                    SHARPEN_PARAMS[i].min_size <= size /\ size <= SHARPEN_PARAMS[i].max_size}
    IN  IF hits = {} THEN [band |-> 0, params |-> DefaultSharpenParams]
        ELSE LET first == CHOOSE i \in hits : \A k \in hits : i <= k
             IN  [band |-> first, params |-> SHARPEN_PARAMS[first].params]

NoSharpen == [band |-> -1, params |-> Params("none", 0, 0)]

\* a sharpening step whose failure leaves a buffer that is not the resized one
ApplySharpeningFailureLosesBuffer(img, size, filterOk) ==
    IF filterOk THEN [img EXCEPT !.sharpen = SelectSharpenParams(size)]
    ELSE [img EXCEPT !.width = 0, !.height = 0]

\* _apply_sharpening: the unsharp mask with the selected parameters; when the
\* filter raises (filterOk = FALSE) the image is returned as it came
ApplySharpening(img, size, filterOk) ==
    IF filterOk THEN [img EXCEPT !.sharpen = SelectSharpenParams(size)] ELSE img

Max(a, b) == IF a >= b THEN a ELSE b

\* a resize that returns a buffer of the source's own size
ResizeKeepingSourceSize(img, width, height, filterOk) ==
    [file |-> img.file, width |-> img.width, height |-> img.height,
     sharpen |-> NoSharpen]

\* resize_with_quality: a new buffer of exactly (width, height) made from img,
\* sharpened when its larger side is below SHARPEN_THRESHOLD
ResizeWithQuality(img, width, height, filterOk) ==
    LET resized == [file |-> img.file, width |-> width, height |-> height,
                    sharpen |-> NoSharpen]
        max_dimension == Max(width, height)
    IN  IF max_dimension < SHARPEN_THRESHOLD
        THEN ApplySharpening(resized, max_dimension, filterOk)
        ELSE resized

\* sorted(sizes, reverse=True), as an insertion sort
RECURSIVE InsertDescending(_, _)
InsertDescending(sorted, x) ==
    IF sorted = << >> THEN <<x>>
    ELSE IF x > Head(sorted) THEN <<x>> \o sorted
    ELSE <<Head(sorted)>> \o InsertDescending(Tail(sorted), x)

RECURSIVE SortDescending(_)
SortDescending(sizes) ==
    IF sizes = << >> THEN << >>
    ELSE InsertDescending(SortDescending(SubSeq(sizes, 1, Len(sizes) - 1)),
                          sizes[Len(sizes)])

\* the sizes in the order given
SizesUnsorted(sizes) == sizes

\* sizes_sorted of generate_ico_from_source
SizesSorted(sizes) == SortDescending(sizes)

\* the list icon_images that generate_ico_from_source hands to save_ico_multisize
IcoFrames(source_img, sizes) ==
    LET sizes_sorted == SizesSorted(sizes)
    IN  [i \in 1..Len(sizes_sorted) |->
            ResizeWithQuality(source_img, sizes_sorted[i], sizes_sorted[i], TRUE)]

\* a writer that saves the first image alone
SaveIcoFirstOnly(images) ==
    IF Len(images) = 0 THEN [error |-> "ValueError"]
    ELSE [error |-> "none", primary |-> images[1], frames |-> <<images[1]>>]

\* save_ico_multisize: images[0] is saved as the primary frame with images[1:]
\* appended in the order given; an empty list raises ValueError
SaveIcoMultisize(images) ==
    IF Len(images) = 0 THEN [error |-> "ValueError"]
    ELSE [error |-> "none", primary |-> images[1], frames |-> images]

(***************************************************************************)
(* The files a user can pick, and the output directories                   *)
(***************************************************************************)
NoPath == "NoPath"
NoImage == [file |-> "none", width |-> 0, height |-> 0, sharpen |-> NoSharpen]
NoDir == "NoDir"
NoProfile == "NoProfile"

\* opens: Image.open succeeds; converts: the pixel data loads (convert("RGBA")
\* succeeds); icc: img.info.get('icc_profile')
FileInfo ==
    [f \in {"square.png", "rect.png", "truncated.png", "corrupt.png"} |->
        CASE f = "square.png"    -> [opens |-> TRUE, converts |-> TRUE,
                                     width |-> 512, height |-> 512, icc |-> "sRGB"]
          [] f = "rect.png"      -> [opens |-> TRUE, converts |-> TRUE,
                                     width |-> 200, height |-> 100, icc |-> NoProfile]
          [] f = "truncated.png" -> [opens |-> TRUE, converts |-> FALSE,
                                     width |-> 512, height |-> 512, icc |-> "AdobeRGB"]
          [] f = "corrupt.png"   -> [opens |-> FALSE, converts |-> FALSE,
                                     width |-> 0, height |-> 0, icc |-> NoProfile]]

Files == DOMAIN FileInfo
Dirs == {"out1", "out2"}

\* the image load_image returns for a file
LoadedImage(f) ==
    [file |-> f, width |-> FileInfo[f].width, height |-> FileInfo[f].height,
     sharpen |-> NoSharpen]

(***************************************************************************)
(* Initial state: IconGeneratorApp.__init__; the icon type comes from the  *)
(* saved configuration                                                     *)
(***************************************************************************)
NoExc == [kind |-> "none", target |-> "none"]

IdleWorker ==
    [pc |-> "idle", source_img |-> NoImage, icon_type |-> "none", targets |-> << >>,
     idx |-> 0, output_path |-> NoDir, resized |-> NoImage, frames |-> << >>,
     exc |-> NoExc]

\* what a run has done so far: the renders and the files written, in order, the
\* dialogs shown, and how it ended
NoRun ==
    [outcome |-> "none", icon_type |-> "none", startSource |-> NoImage,
     startDir |-> NoDir, rendered |-> << >>, written |-> << >>,
     errorDialogs |-> << >>, successDialogs |-> 0, failedTarget |-> 0,
     cause |-> "none"]

AppStart(last_icon_type) ==
    /\ source_image_path = NoPath
    /\ source_image = NoImage
    /\ output_directory = NoDir
    /\ icon_type_var = last_icon_type
    /\ icc_profile = NoProfile
    /\ source_label = "none"
    /\ status_label = [kind |-> "ready"]
    /\ progress_bar = [maximum |-> 100, value |-> 0]
    /\ generate_button = "normal"
    /\ rootAlive = TRUE
    /\ ui = [pc |-> "idle"]
    /\ lastDialog = "none"
    /\ worker = IdleWorker
    /\ disk = {}
    /\ run = NoRun
    /\ events = 0

\* the pure-function variables are not used by the application
AppInit ==
    /\ \E t \in IconTypes : AppStart(t)
    /\ arg = << >>
    /\ res = << >>

(***************************************************************************)
(* The UI thread: the handlers of the buttons, the radio buttons and the   *)
(* window (icon_generator.py)                                              *)
(***************************************************************************)
UserCanAct == rootAlive /\ ui.pc = "idle" /\ events < MaxEvents

\* is_valid for each file that loads and each icon type (evaluated once)
FileIsValid ==
    [f \in {g \in Files : FileInfo[g].converts}, t \in IconTypes |->
        IsValidAspect(FileInfo[f].width, FileInfo[f].height, t)]

\* the label _validate_and_update_source_label leaves for an image and a type
SourceLabelFor(img, icon_type) ==
    IF FileIsValid[img.file, icon_type] THEN "valid" ELSE "warn"

\* the dialog select_source_image shows after a successful load: the blocking
\* error for square and ico, the yes/no warning for wide (either answer returns)
AspectDialogFor(img, icon_type) ==
    IF FileIsValid[img.file, icon_type] THEN "none"
    ELSE IF icon_type = "wide" THEN "aspect_warning" ELSE "invalid_aspect"

\* select_source_image, first half: the file dialog returns f and load_image
\* opens it and stores its profile; a file that does not open raises, which
\* select_source_image reports
SelectSourceImage(f) ==
    /\ UserCanAct
    /\ events' = events + 1
    /\ IF FileInfo[f].opens
       THEN /\ icc_profile' = FileInfo[f].icc
            /\ ui' = [pc |-> "loading", file |-> f]
            /\ UNCHANGED lastDialog
       ELSE /\ lastDialog' = "read_error"
            /\ UNCHANGED <<icc_profile, ui>>
    /\ UNCHANGED <<source_image_path, source_image, output_directory, icon_type_var,
                   source_label, status_label, progress_bar, generate_button,
                   rootAlive, worker, disk, run, fnVars>>

\* select_source_image, second half: load_image converts to RGBA and returns; the
\* image and its path are stored, the label is set and the aspect ratio is checked
FinishLoadImage ==
    /\ ui.pc = "loading"
    /\ ui' = [pc |-> "idle"]
    /\ IF FileInfo[ui.file].converts
       THEN LET img == LoadedImage(ui.file)
            IN  /\ source_image' = img
                /\ source_image_path' = ui.file
                /\ source_label' = SourceLabelFor(img, icon_type_var)
                /\ lastDialog' = AspectDialogFor(img, icon_type_var)
       ELSE /\ lastDialog' = "read_error"
            /\ UNCHANGED <<source_image, source_image_path, source_label>>
    /\ UNCHANGED <<output_directory, icon_type_var, icc_profile, status_label,
                   progress_bar, generate_button, rootAlive, worker, disk, run,
                   events, fnVars>>

\* a radio button is clicked: the variable is written and _on_icon_type_changed
\* revalidates the label
ChangeIconType(t) ==
    /\ UserCanAct
    /\ t # icon_type_var
    /\ events' = events + 1
    /\ icon_type_var' = t
    /\ source_label' = IF source_image_path # NoPath /\ source_image # NoImage
                       THEN SourceLabelFor(source_image, t)
                       ELSE source_label
    /\ UNCHANGED <<source_image_path, source_image, output_directory, icc_profile,
                   status_label, progress_bar, generate_button, rootAlive, ui,
                   lastDialog, worker, disk, run, fnVars>>

SelectOutputDirectory(d) ==
    /\ UserCanAct
    /\ events' = events + 1
    /\ output_directory' = d
    /\ UNCHANGED <<source_image_path, source_image, icon_type_var, icc_profile,
                   source_label, status_label, progress_bar, generate_button,
                   rootAlive, ui, lastDialog, worker, disk, run, fnVars>>

\* a start that leaves the button enabled
GenerateIconsThreadedButtonLeftEnabled ==
    /\ UserCanAct
    /\ source_image_path # NoPath
    /\ output_directory # NoDir
    /\ events' = events + 1
    /\ worker' = [IdleWorker EXCEPT !.pc = "start"]
    /\ run' = [NoRun EXCEPT !.outcome = "running",
                            !.startSource = source_image,
                            !.startDir = output_directory]
    /\ UNCHANGED <<source_image_path, source_image, output_directory, icon_type_var,
                   icc_profile, source_label, status_label, progress_bar, rootAlive,
                   ui, disk, fnVars, generate_button, lastDialog>>

\* generate_icons_threaded: the command of the generate button, which Tk runs only
\* while the button is enabled
GenerateIconsThreaded ==
    /\ UserCanAct
    /\ generate_button = "normal"
    /\ events' = events + 1
    /\ IF source_image_path = NoPath
       THEN /\ lastDialog' = "no_source"
            /\ UNCHANGED <<generate_button, worker, run>>
       ELSE IF output_directory = NoDir
       THEN /\ lastDialog' = "no_directory"
            /\ UNCHANGED <<generate_button, worker, run>>
       ELSE /\ generate_button' = "disabled"
            /\ worker' = [IdleWorker EXCEPT !.pc = "start"]
            /\ run' = [NoRun EXCEPT !.outcome = "running",
                                    !.startSource = source_image,
                                    !.startDir = output_directory]
            /\ UNCHANGED lastDialog
    /\ UNCHANGED <<source_image_path, source_image, output_directory, icon_type_var,
                   icc_profile, source_label, status_label, progress_bar, rootAlive,
                   ui, disk, fnVars>>

WorkerDialogOpen == worker.pc \in {"error_dialog", "ico_error_dialog"}

\* _on_closing: the window is destroyed; every later Tk call raises
OnClosing ==
    /\ UserCanAct
    /\ ~ WorkerDialogOpen
    /\ events' = events + 1
    /\ rootAlive' = FALSE
    /\ UNCHANGED <<source_image_path, source_image, output_directory, icon_type_var,
                   icc_profile, source_label, status_label, progress_bar,
                   generate_button, ui, lastDialog, worker, disk, run, fnVars>>

(***************************************************************************)
(* The worker thread: generate_icons and generate_ico_multisize            *)
(***************************************************************************)
TclError == [kind |-> "TclError", target |-> "none"]

\* the run's history once exc has been raised at a target (0: at no target)
Failed(history, exc, failedTarget) ==
    [history EXCEPT !.outcome = "failed", !.failedTarget = failedTarget,
                    !.cause = exc.kind]

\* a failure that is recorded while the loop goes on to the next target
RaiseSwallowed(exc, nextPc, failedTarget) ==
    /\ worker' = [worker EXCEPT !.pc = "loop", !.idx = @ + 1]
    /\ run' = Failed(run, exc, failedTarget)

\* an exception is raised inside the try block and control passes to the except
\* clause at nextPc: failedTarget is the position of the target whose render or
\* save raised, 0 when no target's did
Raise(exc, nextPc, failedTarget) ==
    /\ worker' = [worker EXCEPT !.pc = nextPc, !.exc = exc]
    /\ run' = Failed(run, exc, failedTarget)

\* lines 411-426: the first status update, the reads of the loaded image and of
\* the icon type, and for the PNG types the catalog lookup and the progress reset
BeginRun ==
    /\ worker.pc = "start"
    /\ IF ~ rootAlive
       THEN /\ Raise(TclError, "except", 0)
            /\ UNCHANGED <<status_label, progress_bar>>
       ELSE /\ status_label' = [kind |-> "opening"]
            /\ IF icon_type_var = "ico"
               THEN /\ worker' = [worker EXCEPT !.pc = "ico_begin",
                                                !.source_img = source_image,
                                                !.icon_type = icon_type_var]
                    /\ UNCHANGED progress_bar
               ELSE /\ worker' = [worker EXCEPT !.pc = "loop",
                                                !.source_img = source_image,
                                                !.icon_type = icon_type_var,
                                                !.targets = TargetsFor(icon_type_var),
                                                !.idx = 0]
                    /\ progress_bar' = [maximum |-> Len(TargetsFor(icon_type_var)),
                                        value |-> 0]
            /\ run' = [run EXCEPT !.icon_type = icon_type_var]
    /\ UNCHANGED <<source_image_path, source_image, output_directory, icon_type_var,
                   icc_profile, source_label, generate_button, rootAlive, ui,
                   lastDialog, disk, events, fnVars>>

\* the ways one resize_with_quality can go wrong: img.resize raises, or (for a
\* target below SHARPEN_THRESHOLD) the unsharp mask raises
RenderFaults(max_dimension) ==
    IF events < MaxEvents
    THEN {"none", "resize"} \cup (IF max_dimension < SHARPEN_THRESHOLD THEN {"filter"} ELSE {})
    ELSE {"none"}

\* the ways one write can go wrong
SaveOutcomes == IF events < MaxEvents THEN {"ok", "OSError", "EncodeError"} ELSE {"ok"}

\* a render that reads the loaded image afresh for every target
RenderTargetFromLoadedImage ==
    /\ worker.pc = "loop"
    /\ worker.idx < Len(worker.targets)
    /\ LET target == worker.targets[worker.idx + 1]
       IN  IF ~ rootAlive
           THEN /\ Raise(TclError, "except", 0)
                /\ UNCHANGED <<status_label, events>>
           ELSE /\ status_label' = [kind |-> "generating", target |-> target.filename]
                /\ \E fault \in RenderFaults(Max(target.width, target.height)) :
                    LET resizeOk == fault # "resize"
                        filterOk == fault # "filter"
                    IN
                      /\ events' = IF fault = "none" THEN events ELSE events + 1
                      /\ IF resizeOk
                         THEN LET resized == ResizeWithQuality(source_image,
                                                target.width, target.height, filterOk)
                              IN  /\ worker' = [worker EXCEPT
                                                   !.pc = "save",
                                                   !.output_path = output_directory,
                                                   !.resized = resized]
                                  /\ run' = [run EXCEPT !.rendered =
                                                Append(@, [target |-> target,
                                                           image |-> resized])]
                         ELSE Raise([kind |-> "RenderError", target |-> "none"],
                                    "except", worker.idx + 1)
    /\ UNCHANGED <<source_image_path, source_image, output_directory, icon_type_var,
                   icc_profile, source_label, progress_bar, generate_button,
                   rootAlive, ui, lastDialog, disk, fnVars>>

\* lines 429-438 up to the resize: the status update for the next target, its
\* output path, and resize_with_quality of the run's source image (the first
\* line of generate_png_icon)
RenderTarget ==
    /\ worker.pc = "loop"
    /\ worker.idx < Len(worker.targets)
    /\ LET target == worker.targets[worker.idx + 1]
       IN  IF ~ rootAlive
           THEN /\ Raise(TclError, "except", 0)
                /\ UNCHANGED <<status_label, events>>
           ELSE /\ status_label' = [kind |-> "generating", target |-> target.filename]
                /\ \E fault \in RenderFaults(Max(target.width, target.height)) :
                    LET resizeOk == fault # "resize"
                        filterOk == fault # "filter"
                    IN
                      /\ events' = IF fault = "none" THEN events ELSE events + 1
                      /\ IF resizeOk
                         THEN LET resized == ResizeWithQuality(worker.source_img,
                                                target.width, target.height, filterOk)
                              IN  /\ worker' = [worker EXCEPT
                                                   !.pc = "save",
                                                   !.output_path = output_directory,
                                                   !.resized = resized]
                                  /\ run' = [run EXCEPT !.rendered =
                                                Append(@, [target |-> target,
                                                           image |-> resized])]
                         ELSE Raise([kind |-> "RenderError", target |-> "none"],
                                    "except", worker.idx + 1)
    /\ UNCHANGED <<source_image_path, source_image, output_directory, icon_type_var,
                   icc_profile, source_label, progress_bar, generate_button,
                   rootAlive, ui, lastDialog, disk, fnVars>>

\* lines 443-450, after the last target: the success status and the success
\* dialog (which does not wait for the user)
ReportSuccess ==
    /\ worker.pc = "loop"
    /\ worker.idx = Len(worker.targets)
    /\ IF ~ rootAlive
       THEN /\ Raise(TclError, "except", 0)
            /\ UNCHANGED status_label
       ELSE /\ status_label' = [kind |-> "success", count |-> Len(worker.targets)]
            /\ worker' = [worker EXCEPT !.pc = "finally"]
            /\ run' = [run EXCEPT !.outcome = "success",
                                  !.successDialogs = @ + 1]
    /\ UNCHANGED <<source_image_path, source_image, output_directory, icon_type_var,
                   icc_profile, source_label, progress_bar, generate_button,
                   rootAlive, ui, lastDialog, disk, events, fnVars>>

\* the file of a path, if the disk holds one
FilesAt(dir, filename) == {e \in disk : e.dir = dir /\ e.filename = filename}

WriteFile(dir, filename, content) ==
    (disk \ FilesAt(dir, filename))
        \cup {[dir |-> dir, filename |-> filename, content |-> content]}

\* the PNG save_png_optimized encodes: the image with the processor's current
\* profile attached if there is one
PngOf(img) ==
    [format |-> "PNG", complete |-> TRUE, images |-> <<img>>, icc |-> icc_profile]

Truncated(format) ==
    [format |-> format, complete |-> FALSE, images |-> << >>, icc |-> NoProfile]

\* the container save_ico_multisize writes: the frames in the order given
IcoOf(images) ==
    [format |-> "ICO", complete |-> TRUE, images |-> images, icc |-> NoProfile]

\* progress_bar["value"] = value
ProgressAfter(value) == [progress_bar EXCEPT !.value = value]

\* generate_png_icon, second line: save_png_optimized, and then lines 440-441:
\* the progress bar is set to idx + 1 and the window is refreshed.  The write
\* can fail when the file is opened (an OSError that names the path; nothing is
\* written) or while encoding (the file is left truncated); the refresh raises
\* when the window is gone
SaveTarget ==
    /\ worker.pc = "save"
    /\ LET target == worker.targets[worker.idx + 1]
       IN  \E outcome \in SaveOutcomes :
            /\ events' = IF outcome = "ok" THEN events ELSE events + 1
            /\ CASE outcome = "ok" ->
                     LET saved == [run EXCEPT !.written =
                                      Append(@, [dir |-> worker.output_path,
                                                 filename |-> target.filename,
                                                 content |-> PngOf(worker.resized)])]
                     IN  /\ disk' = WriteFile(worker.output_path, target.filename,
                                              PngOf(worker.resized))
                         /\ IF ~ rootAlive
                            THEN /\ worker' = [worker EXCEPT !.pc = "except",
                                                             !.exc = TclError]
                                 /\ run' = Failed(saved, TclError, 0)
                                 /\ UNCHANGED progress_bar
                            ELSE /\ worker' = [worker EXCEPT !.pc = "loop", !.idx = @ + 1]
                                 /\ run' = saved
                                 /\ progress_bar' = ProgressAfter(worker.idx + 1)
                [] outcome = "OSError" ->
                     /\ Raise([kind |-> "OSError", target |-> target.filename],
                              "except", worker.idx + 1)
                     /\ UNCHANGED <<disk, progress_bar>>
                [] outcome = "EncodeError" ->
                     /\ Raise([kind |-> "EncodeError", target |-> "none"],
                              "except", worker.idx + 1)
                     /\ disk' = WriteFile(worker.output_path, target.filename,
                                          Truncated("PNG"))
                     /\ UNCHANGED progress_bar
    /\ UNCHANGED <<source_image_path, source_image, output_directory, icon_type_var,
                   icc_profile, source_label, status_label, generate_button,
                   rootAlive, ui, lastDialog, fnVars>>

\* what str(e) of the caught exception says: the cause, and the target only when
\* the exception itself names it
ErrorText(exc) == [cause |-> exc.kind, target |-> exc.target]

\* the except clause of generate_icons: the error status, then the error dialog;
\* with the window gone the status update raises and the handler is left
HandleError ==
    /\ worker.pc = "except"
    /\ IF ~ rootAlive
       THEN /\ worker' = [worker EXCEPT !.pc = "finally", !.exc = TclError]
            /\ UNCHANGED <<status_label, run>>
       ELSE /\ status_label' = [kind |-> "error", text |-> ErrorText(worker.exc)]
            /\ worker' = [worker EXCEPT !.pc = "error_dialog"]
            /\ run' = [run EXCEPT !.errorDialogs =
                          Append(@, [title |-> "Failed to generate icons",
                                     text |-> ErrorText(worker.exc)])]
    /\ UNCHANGED <<source_image_path, source_image, output_directory, icon_type_var,
                   icc_profile, source_label, progress_bar, generate_button,
                   rootAlive, ui, lastDialog, disk, events, fnVars>>

\* the user closes the error dialog of generate_icons: showerror returns
DismissErrorDialog ==
    /\ worker.pc = "error_dialog"
    /\ worker' = [worker EXCEPT !.pc = "finally"]
    /\ UNCHANGED <<source_image_path, source_image, output_directory, icon_type_var,
                   icc_profile, source_label, status_label, progress_bar,
                   generate_button, rootAlive, ui, lastDialog, disk, run, events, fnVars>>

\* an end of the thread that leaves the button as it is
FinallyButtonStaysDisabled ==
    /\ worker.pc = "finally"
    /\ worker' = IdleWorker
    /\ UNCHANGED <<source_image_path, source_image, output_directory, icon_type_var,
                   icc_profile, source_label, status_label, progress_bar, rootAlive,
                   ui, lastDialog, disk, run, events, fnVars, generate_button>>

\* the finally clause: the button is enabled again (a Tk call, which raises when
\* the window is gone) and the thread ends
Finally ==
    /\ worker.pc = "finally"
    /\ generate_button' = IF rootAlive THEN "normal" ELSE generate_button
    /\ worker' = IdleWorker
    /\ UNCHANGED <<source_image_path, source_image, output_directory, icon_type_var,
                   icc_profile, source_label, status_label, progress_bar, rootAlive,
                   ui, lastDialog, disk, run, events, fnVars>>

\* generate_ico_multisize up to the call of generate_ico_from_source: the
\* progress bar is set up for len(ICO_SIZES) + 1 steps, the status is updated and
\* the output path is built
BeginIco ==
    /\ worker.pc = "ico_begin"
    /\ IF ~ rootAlive
       THEN /\ Raise(TclError, "ico_except", 0)
            /\ UNCHANGED <<progress_bar, status_label>>
       ELSE /\ progress_bar' = [maximum |-> Len(ICO_SIZES) + 1, value |-> 0]
            /\ status_label' = [kind |-> "ico_layers"]
            /\ worker' = [worker EXCEPT !.pc = "ico_render",
                                        !.targets = TargetsFor("ico"),
                                        !.output_path = output_directory,
                                        !.frames = << >>]
            /\ UNCHANGED run
    /\ UNCHANGED <<source_image_path, source_image, output_directory, icon_type_var,
                   icc_profile, source_label, generate_button, rootAlive, ui,
                   lastDialog, disk, events, fnVars>>

\* sizes_sorted as generate_ico_multisize's call computes it, from ICO_SIZES
IcoSizesSorted == SizesSorted(ICO_SIZES)

\* the loop of generate_ico_from_source: one frame per size of sizes_sorted
RenderFrame ==
    /\ worker.pc = "ico_render"
    /\ LET sizes_sorted == IcoSizesSorted
       IN  IF Len(worker.frames) = Len(sizes_sorted)
           THEN /\ worker' = [worker EXCEPT !.pc = "ico_save"]
                /\ UNCHANGED <<run, events>>
           ELSE LET size == sizes_sorted[Len(worker.frames) + 1]
                IN  \E fault \in RenderFaults(size) :
                    LET resizeOk == fault # "resize"
                        filterOk == fault # "filter"
                    IN
                       /\ events' = IF fault = "none" THEN events ELSE events + 1
                       /\ IF resizeOk
                          THEN LET resized == ResizeWithQuality(worker.source_img, size,
                                                                size, filterOk)
                               IN  /\ worker' = [worker EXCEPT !.frames = Append(@, resized)]
                                   /\ run' = [run EXCEPT !.rendered =
                                                 Append(@, [target |-> IcoTarget(size),
                                                            image |-> resized])]
                          ELSE Raise([kind |-> "RenderError", target |-> "none"],
                                     "ico_except", Len(worker.frames) + 1)
    /\ UNCHANGED <<source_image_path, source_image, output_directory, icon_type_var,
                   icc_profile, source_label, status_label, progress_bar,
                   generate_button, rootAlive, ui, lastDialog, disk, fnVars>>

\* save_ico_multisize on the frames collected; the write can fail like a PNG's
SaveIco ==
    /\ worker.pc = "ico_save"
    /\ \E outcome \in SaveOutcomes :
        /\ events' = IF outcome = "ok" THEN events ELSE events + 1
        /\ CASE outcome = "ok" ->
                 LET saved == SaveIcoMultisize(worker.frames)
                 IN  IF saved.error # "none"
                     THEN /\ Raise([kind |-> saved.error, target |-> "none"], "ico_except", 0)
                          /\ UNCHANGED disk
                     ELSE /\ disk' = WriteFile(worker.output_path, "icon.ico",
                                               IcoOf(saved.frames))
                          /\ worker' = [worker EXCEPT !.pc = "ico_done"]
                          /\ run' = [run EXCEPT !.written =
                                        Append(@, [dir |-> worker.output_path,
                                                   filename |-> "icon.ico",
                                                   content |-> IcoOf(saved.frames)])]
            [] outcome = "OSError" ->
                 /\ Raise([kind |-> "OSError", target |-> "icon.ico"], "ico_except", 0)
                 /\ UNCHANGED disk
            [] outcome = "EncodeError" ->
                 /\ Raise([kind |-> "EncodeError", target |-> "none"], "ico_except", 0)
                 /\ disk' = WriteFile(worker.output_path, "icon.ico", Truncated("ICO"))
    /\ UNCHANGED <<source_image_path, source_image, output_directory, icon_type_var,
                   icc_profile, source_label, status_label, progress_bar,
                   generate_button, rootAlive, ui, lastDialog, fnVars>>

\* lines 475-484: the progress bar is filled, the success status and the success
\* dialog are shown; generate_icons then returns through its finally clause
FinishIco ==
    /\ worker.pc = "ico_done"
    /\ IF ~ rootAlive
       THEN /\ Raise(TclError, "ico_except", 0)
            /\ UNCHANGED <<progress_bar, status_label>>
       ELSE /\ progress_bar' = ProgressAfter(Len(ICO_SIZES) + 1)
            /\ status_label' = [kind |-> "success", count |-> Len(ICO_SIZES)]
            /\ worker' = [worker EXCEPT !.pc = "finally"]
            /\ run' = [run EXCEPT !.outcome = "success", !.successDialogs = @ + 1]
    /\ UNCHANGED <<source_image_path, source_image, output_directory, icon_type_var,
                   icc_profile, source_label, generate_button, rootAlive, ui,
                   lastDialog, disk, events, fnVars>>

\* the except clause of generate_ico_multisize: the error status and an error
\* dialog; with the window gone the status update raises instead
HandleIcoError ==
    /\ worker.pc = "ico_except"
    /\ IF ~ rootAlive
       THEN /\ worker' = [worker EXCEPT !.pc = "except", !.exc = TclError]
            /\ UNCHANGED <<status_label, run>>
       ELSE /\ status_label' = [kind |-> "error", text |-> ErrorText(worker.exc)]
            /\ worker' = [worker EXCEPT !.pc = "ico_error_dialog"]
            /\ run' = [run EXCEPT !.errorDialogs =
                          Append(@, [title |-> "Failed to generate ICO file",
                                     text |-> ErrorText(worker.exc)])]
    /\ UNCHANGED <<source_image_path, source_image, output_directory, icon_type_var,
                   icc_profile, source_label, progress_bar, generate_button,
                   rootAlive, ui, lastDialog, disk, events, fnVars>>

\* the user closes that dialog; line 489 re-raises into generate_icons' except
DismissIcoErrorDialog ==
    /\ worker.pc = "ico_error_dialog"
    /\ worker' = [worker EXCEPT !.pc = "except"]
    /\ UNCHANGED <<source_image_path, source_image, output_directory, icon_type_var,
                   icc_profile, source_label, status_label, progress_bar,
                   generate_button, rootAlive, ui, lastDialog, disk, run, events, fnVars>>

Next ==
    \/ \E f \in Files : SelectSourceImage(f)
    \/ FinishLoadImage
    \/ \E t \in IconTypes : ChangeIconType(t)
    \/ \E d \in Dirs : SelectOutputDirectory(d)
    \/ GenerateIconsThreaded
    \/ OnClosing
    \/ BeginRun
    \/ RenderTarget
    \/ ReportSuccess
    \/ SaveTarget
    \/ HandleError
    \/ DismissErrorDialog
    \/ Finally
    \/ BeginIco
    \/ RenderFrame
    \/ SaveIco
    \/ FinishIco
    \/ HandleIcoError
    \/ DismissIcoErrorDialog

Spec == AppInit /\ [][Next]_vars

(***************************************************************************)
(* The pure functions applied to bounded inputs                            *)
(***************************************************************************)
NamedValidateInputs ==
    {<<100, 100>>, <<100, 96>>, <<100, 80>>, <<310, 150>>, <<300, 150>>, <<200, 150>>}

ValidateInit ==
    /\ AppStart("square")
    /\ arg \in [size : ((0..MaxDim) \X (0..MaxDim)) \cup NamedValidateInputs,
                icon_type : IconTypes]
    /\ res = << >>

Validate ==
    /\ res = << >>
    /\ res' = << IsValidAspect(arg.size[1], arg.size[2], arg.icon_type) >>
    /\ UNCHANGED <<appVars, arg>>

ValidateSpec == ValidateInit /\ [][Validate]_vars

TestImage == LoadedImage("square.png")

SharpenInit ==
    /\ AppStart("square")
    /\ arg \in [width : 1..MaxSharpenDim, height : 1..MaxSharpenDim, filterOk : BOOLEAN]
    /\ res = << >>

Resize ==
    /\ res = << >>
    /\ res' = << ResizeWithQuality(TestImage, arg.width, arg.height, arg.filterOk) >>
    /\ UNCHANGED <<appVars, arg>>

SharpenSpec == SharpenInit /\ [][Resize]_vars

InputOrders(seq) ==
    {p \in [1..Len(seq) -> {seq[i] : i \in 1..Len(seq)}] :
        \A i, j \in 1..Len(seq) : i # j => p[i] # p[j]}

IcoInit ==
    /\ AppStart("square")
    /\ arg \in InputOrders(ICO_SIZES)
    /\ res = << >>

GenerateIcoFromSource ==
    /\ res = << >>
    /\ res' = << SaveIcoMultisize(IcoFrames(TestImage, arg)) >>
    /\ UNCHANGED <<appVars, arg>>

IcoSpec == IcoInit /\ [][GenerateIcoFromSource]_vars

(***************************************************************************)
(* The application with a worker thread that is scheduled fairly and a     *)
(* user who closes every dialog the worker is waiting on                   *)
(***************************************************************************)
WorkerStep ==
    \/ BeginRun
    \/ RenderTarget
    \/ SaveTarget
    \/ ReportSuccess
    \/ HandleError
    \/ DismissErrorDialog
    \/ Finally
    \/ BeginIco
    \/ RenderFrame
    \/ SaveIco
    \/ FinishIco
    \/ HandleIcoError
    \/ DismissIcoErrorDialog

FairSpec == Spec /\ WF_vars(WorkerStep)

(***************************************************************************)
(* Properties                                                              *)
(***************************************************************************)
\* |width / height - 1.0| <= 0.05 in exact arithmetic
WithinSquareTolerance(width, height) == height > 0 /\ 20 * Abs(width - height) <= height

\* |width / height - 310 / 150| <= 0.1 in exact arithmetic
WithinWideTolerance(width, height) ==
    height > 0 /\ Abs(30 * width - 62 * height) <= 3 * height

\* C1: whenever a run has started with the icon type square or ico, the source
\* image it works from is within the square tolerance, and so no render is ever
\* made for such a type from an image outside it.
C1_BlockingValidation ==
    /\ worker.icon_type \in {"square", "ico"}
          => WithinSquareTolerance(worker.source_img.width, worker.source_img.height)
    /\ \A i \in 1..Len(run.rendered) :
          run.icon_type \in {"square", "ico"}
             => WithinSquareTolerance(FileInfo[run.rendered[i].image.file].width,
                                      FileInfo[run.rendered[i].image.file].height)

\* C2: every complete PNG on disk carries exactly the colour profile (or the
\* absence of one) of the source image it was rendered from.
C2_ProfilePassthrough ==
    \A e \in disk :
        (e.content.format = "PNG" /\ e.content.complete)
           => e.content.icc = FileInfo[e.content.images[1].file].icc

IcoSizeSet == {ICO_SIZES[i] : i \in 1..Len(ICO_SIZES)}

\* C3: for every order of the seven ICO sizes given to generate_ico_from_source,
\* the frames handed to the container writer are strictly descending in size,
\* the first (primary) frame is the 512 frame, and each size occurs exactly once.
C3_ContainerOrdering ==
    res # << >> =>
        LET saved == res[1]
        IN  /\ saved.error = "none"
            /\ Len(saved.frames) = Len(ICO_SIZES)
            /\ \A i \in 1..(Len(saved.frames) - 1) :
                  saved.frames[i].width > saved.frames[i + 1].width
            /\ saved.primary = saved.frames[1]
            /\ saved.primary.width = 512
            /\ \A i \in 1..Len(saved.frames) :
                  saved.frames[i].height = saved.frames[i].width
            /\ \A size \in IcoSizeSet :
                  Cardinality({i \in 1..Len(saved.frames) :
                                  saved.frames[i].width = size}) = 1

\* an input in ascending order has been generated, with 512 first in the output
C3_Witness ==
    /\ arg = ICO_SIZES
    /\ res # << >>
    /\ res[1].frames[1].width = 512
    /\ res[1].frames[Len(ICO_SIZES)].width = 16

\* C4: the validation passes for square and ico exactly when height > 0 and
\* 20 * |width - height| <= height, passes for wide exactly when height > 0 and
\* |30 * width - 62 * height| <= 3 * height, and fails for height = 0.
C4_ValidationIsExactRatioTest ==
    res # << >> =>
        res[1] = IF arg.icon_type \in {"square", "ico"}
                 THEN WithinSquareTolerance(arg.size[1], arg.size[2])
                 ELSE WithinWideTolerance(arg.size[1], arg.size[2])

\* the parameters the sharpening table documents for a max dimension below 128
DocumentedSharpenParams(m) ==
    IF m <= 32 THEN Params("0.6", 70, 3)
    ELSE IF m <= 64 THEN Params("0.5", 50, 3)
    ELSE Params("0.4", 35, 3)

\* C5: for a target with max dimension m >= 1, resize_with_quality applies the
\* unsharp mask with (0.6, 70, 3) for m <= 32, (0.5, 50, 3) for 33..64 and
\* (0.4, 35, 3) for 65..127, applies no sharpening for m >= 128, and never
\* falls back to the default parameters.
C5_SharpenBandSelection ==
    res # << >> =>
        LET m == Max(arg.width, arg.height)
            resized == res[1]
        IN  /\ m >= 128 => resized.sharpen = NoSharpen
            /\ (m <= 127 /\ arg.filterOk) =>
                  /\ resized.sharpen.band # 0
                  /\ resized.sharpen.params = DocumentedSharpenParams(m)
            /\ resized.width = arg.width /\ resized.height = arg.height

\* a target of max dimension 127, the last one sharpened, has been resized and
\* sharpened with the third band
C5_Witness ==
    /\ res # << >>
    /\ arg.filterOk
    /\ Max(arg.width, arg.height) = 127
    /\ res[1].sharpen.params = Params("0.4", 35, 3)

DocumentedCount(icon_type) ==
    CASE icon_type = "square" -> 20
      [] icon_type = "wide"   -> 5
      [] icon_type = "ico"    -> 7

\* C6: for every icon type the target list is non-empty and has the documented
\* number of entries (20, 5, 7), and the list a run has looked up is that list.
C6_CatalogCounts ==
    /\ \A t \in IconTypes :
          /\ TargetsFor(t) # << >>
          /\ Len(TargetsFor(t)) = DocumentedCount(t)
    /\ worker.pc \in {"loop", "save", "ico_render", "ico_save", "ico_done"}
          => /\ worker.targets = TargetsFor(worker.icon_type)
             /\ Len(worker.targets) = DocumentedCount(worker.icon_type)

\* runs of all three types have looked their targets up: here an ico run
C6_Witness ==
    /\ worker.pc = "ico_render"
    /\ worker.icon_type = "ico"
    /\ Len(worker.targets) = 7

PngRun == run.icon_type \in {"square", "wide"}

OnDisk(entry) == entry \in disk

\* C7: in a square or wide run, once the render or the save of the k-th target
\* has failed, no later target is rendered or saved, the run is in the failure
\* state and not the success state, and the files written for targets 1..k-1
\* are on disk as they were written.
C7_AbortOnFirstFailure ==
    (PngRun /\ run.failedTarget > 0) =>
        /\ Len(run.rendered) <= run.failedTarget
        /\ Len(run.written) = run.failedTarget - 1
        /\ run.outcome = "failed"
        /\ run.successDialogs = 0
        /\ worker.pc \in {"except", "error_dialog", "finally", "idle"}
        /\ \A i \in 1..Len(run.written) :
              /\ run.written[i].filename = TargetsFor(run.icon_type)[i].filename
              /\ OnDisk(run.written[i])

\* a run whose third target failed has ended, with two files written
C7_Witness ==
    /\ PngRun
    /\ run.failedTarget = 3
    /\ Len(run.written) = 2
    /\ worker.pc = "idle"

\* the name of the target at position k of the run's type
TargetName(k) == TargetsFor(run.icon_type)[k].filename

\* C8: whenever a run has failed on a target, the status text and the error
\* dialog name that target and give the cause.
C8_FailureReportNamesTarget ==
    (run.failedTarget > 0 /\ worker.pc \in {"error_dialog", "ico_error_dialog"}) =>
        /\ status_label.kind = "error"
        /\ status_label.text.cause = run.cause
        /\ status_label.text.target = TargetName(run.failedTarget)
        /\ \A i \in 1..Len(run.errorDialogs) :
              /\ run.errorDialogs[i].text.cause = run.cause
              /\ run.errorDialogs[i].text.target = TargetName(run.failedTarget)

\* the targets the run in progress has completed
Completed == IF worker.icon_type = "ico" THEN Len(worker.frames) ELSE worker.idx

\* C9: for every icon type, while the run works on its targets the progress
\* reported is (i, total) with i the number of targets completed, and it is
\* (total, total) when the run has succeeded.
C9_PerTargetProgress ==
    /\ worker.pc \in {"loop", "save", "ico_render", "ico_save"}
          => /\ progress_bar.value = Completed
             /\ progress_bar.maximum = Len(TargetsFor(worker.icon_type))
    /\ (run.outcome = "success" /\ worker.pc = "finally")
          => /\ progress_bar.value = Len(TargetsFor(run.icon_type))
             /\ progress_bar.maximum = Len(TargetsFor(run.icon_type))

\* the files a complete run of the type writes
FilesOfRun(icon_type) == IF icon_type = "ico" THEN 1 ELSE Len(TargetsFor(icon_type))

\* C10: a run in which only a status or progress notification failed (no
\* render and no write did) has, when it ends, rendered and written every target.
C10_NotificationFailureIsHarmless ==
    (worker.pc = "idle" /\ run.icon_type # "none" /\ run.cause \in {"none", "TclError"}) =>
        /\ Len(run.rendered) = Len(TargetsFor(run.icon_type))
        /\ Len(run.written) = FilesOfRun(run.icon_type)

\* a step in which a worker thread is started
StartsRun == worker.pc # "start" /\ worker'.pc = "start"

\* C11: at most one generation run is in progress at a time: while a run is in
\* progress the generate button is disabled, so that no click reaches
\* generate_icons_threaded, and a worker thread is only ever started when no
\* run is in progress.
C11_AtMostOneWorker ==
    /\ [](worker.pc # "idle" => generate_button = "disabled")
    /\ [][StartsRun => worker.pc = "idle"]_vars

\* a run is saving its second or a later target while the window is open and the
\* user can still act
C11_Witness ==
    /\ worker.pc = "save"
    /\ worker.idx >= 1
    /\ disk # {}
    /\ UserCanAct
    /\ generate_button = "disabled"

\* the catalog of the run's type
RunTargets == TargetsFor(run.icon_type)

\* C12: in a square or wide run the files are written one per catalog entry in
\* catalog order, each under the entry's file name and holding an image of
\* exactly the entry's (width, height); entry i is written before the render of
\* entry i + 1 begins; and a successful run has written every entry (20 for
\* square, 5 for wide), each once, and every one of them is on disk.
C12_SequentialPngPipeline ==
    PngRun =>
        /\ Len(run.written) <= Len(run.rendered)
        /\ Len(run.rendered) <= Len(run.written) + 1
        /\ \A i \in 1..Len(run.rendered) : run.rendered[i].target = RunTargets[i]
        /\ \A i \in 1..Len(run.written) :
              /\ run.written[i].filename = RunTargets[i].filename
              /\ run.written[i].content.format = "PNG"
              /\ run.written[i].content.complete
              /\ run.written[i].content.images = <<run.rendered[i].image>>
              /\ run.written[i].content.images[1].width = RunTargets[i].width
              /\ run.written[i].content.images[1].height = RunTargets[i].height
        /\ run.outcome = "success" =>
              /\ Len(run.written) = Len(RunTargets)
              /\ Len(run.written) = DocumentedCount(run.icon_type)
              /\ \A i \in 1..Len(run.written) :
                    /\ OnDisk(run.written[i])
                    /\ Cardinality({k \in 1..Len(run.written) :
                           run.written[k].filename = RunTargets[i].filename}) = 1

\* a wide run has succeeded with its five files written, the first 310 x 150
C12_Witness ==
    /\ run.icon_type = "wide"
    /\ run.outcome = "success"
    /\ Len(run.written) = 5
    /\ run.written[1].content.images[1].width = 310
    /\ run.written[1].content.images[1].height = 150

IcoRun == run.icon_type = "ico"

\* a step after which the container writer is the next thing to be called
EntersIcoSave == worker.pc # "ico_save" /\ worker'.pc = "ico_save"

\* C13: in an ico run the container writer is called at most once, only after
\* all 7 frames have been rendered, and with those 7 frames in the one call;
\* when the render of a frame has failed the writer is never called and the
\* run writes no file.
C13_ContainerWrittenInOneCall ==
    /\ [](IcoRun =>
            /\ Len(run.written) <= 1
            /\ (worker.pc \in {"ico_save", "ico_done"} =>
                  /\ Len(worker.frames) = Len(ICO_SIZES)
                  /\ Len(run.rendered) = Len(ICO_SIZES))
            /\ (run.written # << >> =>
                  /\ run.written[1].filename = "icon.ico"
                  /\ Len(run.written[1].content.images) = Len(ICO_SIZES)
                  /\ \A i \in 1..Len(ICO_SIZES) :
                        run.written[1].content.images[i] = run.rendered[i].image)
            /\ (run.failedTarget > 0 =>
                  /\ run.written = << >>
                  /\ worker.pc \notin {"ico_save", "ico_done"}))
    /\ [][/\ (EntersIcoSave =>
                /\ worker.pc = "ico_render"
                /\ run.outcome = "running"
                /\ run.written = << >>)
          /\ ((worker.pc = "ico_save" /\ worker' # worker) =>
                /\ worker'.pc \in {"ico_done", "ico_except"}
                /\ (run'.written # << >> \/ run'.outcome = "failed"))
          /\ ((worker.icon_type = "ico" /\ disk' # disk) =>
                /\ worker.pc = "ico_save"
                /\ Len(worker.frames) = Len(ICO_SIZES))]_vars

\* an ico run has written its container with seven frames, the 512 one first
C13_Witness ==
    /\ IcoRun
    /\ run.written # << >>
    /\ Len(run.written[1].content.images) = 7
    /\ run.written[1].content.images[1].width = 512
    /\ OnDisk(run.written[1])

RunStarted == worker.pc = "start"

RunEnded == worker.pc = "idle" /\ run.outcome \in {"success", "failed"}

\* C14: every started run eventually ends in the success state or the failure
\* state, and when it has ended the generate button is enabled again.
C14_EveryRunEndsButtonEnabled ==
    RunStarted ~> (RunEnded /\ generate_button = "normal")

\* C14, with the window taken into account: every started run eventually ends
\* in the success state or the failure state, and unless the window has been
\* closed meanwhile the generate button is then enabled again; the thread is
\* never left anywhere else.
C14_EveryRunEndsButtonEnabledWhileWindowOpen ==
    /\ RunStarted ~> (RunEnded /\ (rootAlive => generate_button = "normal"))
    /\ []((worker.pc = "idle" /\ rootAlive) => generate_button = "normal")
    /\ []((worker.pc = "idle" /\ run.outcome # "none") => RunEnded)

\* a later run has been started after an earlier one wrote its files and ended
C14_Witness ==
    /\ RunStarted
    /\ disk # {}
    /\ rootAlive

\* the unsharp mask failed for the i-th render of the run: the target is one
\* that is sharpened, and its image carries no sharpening
SharpenFailedAt(i) ==
    /\ Max(run.rendered[i].target.width, run.rendered[i].target.height) < SHARPEN_THRESHOLD
    /\ run.rendered[i].image.sharpen = NoSharpen

\* the file the run has written for its i-th render holds that render's image
WrittenHolds(i) ==
    IF IcoRun
    THEN /\ Len(run.written) = 1
         /\ run.written[1].content.images[i] = run.rendered[i].image
    ELSE /\ Len(run.written) >= i
         /\ run.written[i].content.images = <<run.rendered[i].image>>

\* C15: when the unsharp mask fails for a target of max dimension below 128,
\* resize_with_quality returns the unsharpened buffer of exactly the target's
\* dimensions and raises nothing: the failure is never the cause of a failed
\* run, the target's own save comes next, and a run with no other failure
\* succeeds with every target written, that target's unsharpened image included.
C15_SharpenFailureAbsorbed ==
    /\ run.cause \in {"none", "RenderError", "OSError", "EncodeError",
                      "ValueError", "TclError"}
    /\ \A i \in 1..Len(run.rendered) :
          SharpenFailedAt(i) =>
             /\ run.rendered[i].image.width = run.rendered[i].target.width
             /\ run.rendered[i].image.height = run.rendered[i].target.height
             /\ run.failedTarget = i => run.cause \in {"OSError", "EncodeError"}
             /\ PngRun =>
                   \/ WrittenHolds(i)
                   \/ worker.pc = "save" /\ worker.idx + 1 = i
                   \/ run.failedTarget = i
             /\ run.outcome = "success" =>
                   /\ Len(run.rendered) = Len(RunTargets)
                   /\ WrittenHolds(i)

\* a run in which the unsharp mask failed for a target has succeeded
C15_Witness ==
    /\ run.outcome = "success"
    /\ \E i \in 1..Len(run.rendered) : SharpenFailedAt(i) /\ WrittenHolds(i)

\* the step in which the worker reads self.source_image
CapturesSource == worker.pc = "start" /\ worker'.pc \in {"loop", "ico_begin"}

\* C16, as stated: every target of a run is rendered from the image that was
\* loaded when the run was started.
C16_RenderedFromImageLoadedAtStart ==
    \A i \in 1..Len(run.rendered) : run.rendered[i].image.file = run.startSource.file

\* C16, with the moment of the read made exact: every target of a run is
\* rendered from one and the same image, the one that was loaded when the
\* worker read it at the beginning of generate_icons; an image loaded after that
\* read has no effect on the run, and no step of the worker changes the loaded
\* image or its path.
C16_RenderedFromImageReadByWorker ==
    /\ [](\A i \in 1..Len(run.rendered) :
            /\ run.rendered[i].image.file = run.rendered[1].image.file
            /\ (worker.pc # "idle" =>
                  run.rendered[i].image.file = worker.source_img.file))
    /\ [][/\ (CapturesSource => worker'.source_img = source_image)
          /\ ((worker.pc \notin {"idle", "start"} /\ worker'.pc # "idle")
                 => worker'.source_img = worker.source_img)
          /\ (WorkerStep => UNCHANGED <<source_image, source_image_path>>)]_vars

\* a run has rendered a target after the UI thread loaded a different image
C16_Witness ==
    /\ worker.pc = "save"
    /\ Len(run.rendered) >= 1
    /\ source_image.file # worker.source_img.file
    /\ source_image.file # run.rendered[Len(run.rendered)].image.file
    /\ run.startSource = worker.source_img

\* the colour profile of the image that is loaded (none before the first load)
ProfileOfLoadedImage ==
    IF source_image = NoImage THEN NoProfile ELSE FileInfo[source_image.file].icc

\* C17: a load that fails leaves the loaded image, its path and the stored
\* colour profile as they were, so that whenever no load is under way the
\* stored profile is the profile of the loaded image and the path is its path.
C17_FailedLoadLeavesStateUnchanged ==
    ui.pc = "idle" =>
        /\ icc_profile = ProfileOfLoadedImage
        /\ source_image_path = (IF source_image = NoImage THEN NoPath
                                ELSE source_image.file)

\* C18: every file a square or wide run writes goes into one directory, the
\* one that was selected when the run was started.
C18_OneOutputDirectoryPerRun ==
    PngRun =>
        \A i \in 1..Len(run.written) :
            /\ run.written[i].dir = run.written[1].dir
            /\ run.written[i].dir = run.startDir

\* the terminal notifications the run has presented so far
Reports == run.successDialogs + Len(run.errorDialogs)

\* C19: a run never presents more than one terminal notification (never two
\* error dialogs, never a success dialog and an error dialog), and a run that
\* has ended with the window open has presented exactly one: the success dialog
\* if it succeeded, an error dialog if it failed.
C19_ExactlyOneReportPerRun ==
    /\ Reports <= 1
    /\ (RunEnded /\ rootAlive) =>
          /\ Reports = 1
          /\ run.outcome = "success" <=> run.successDialogs = 1

=============================================================================
